---------------------------- MODULE Spec2Model ----------------------------
(***************************************************************************)
(* Model of detector.py: the lens-flare heuristics (is_flare_lots,         *)
(* is_flare_elliptical, is_flare_rays, is_flare_arcs), their helpers and   *)
(* the command-line loop that chains them.                                 *)
(*                                                                         *)
(* An image is a record [h, w, pix]: pix is the row-major sequence of the  *)
(* h*w pixels, each a <<b, g, r>> triple (OpenCV channel order).           *)
(* The OpenCV detectors whose result is not determined by the source       *)
(* (SimpleBlobDetector, HoughLinesP, HoughCircles) are inputs of the       *)
(* operators: the actions draw their results from bounded sets.            *)
(***************************************************************************)
EXTENDS Integers, Sequences, FiniteSets, TLC

VARIABLES
    img_list,   \* __main__: sys.argv[1:], each entry the content of the file
    idx,        \* __main__: position of the for loop in img_list (1-based)
    pc,         \* __main__: "loop", "chain", "done", "crashed";
                \* SpecCall: "api" before the call, "returned" after it
    branch,     \* __main__: position in the if/elif chain for the current image
    img,        \* the image a heuristic is called on (None when unreadable)
    stdout,     \* the lines printed so far
    flares,     \* __main__: flares counter
    good,       \* __main__: good counter
    calls,      \* log of heuristic invocations <<image index, name, returned value>>
    img0,       \* SpecCall: the caller's image as it was before the last call
    ret         \* SpecCall: the last call, its locals and its returned value

vars == <<img_list, idx, pc, branch, img, stdout, flares, good, calls, img0, ret>>

\* Python's None where an image or an array is expected (cv2.imread on an
\* unreadable file, HoughLinesP / HoughCircles with nothing detected)
None == [none |-> TRUE]

----------------------------------------------------------------------------
(* Bounds of the model *)

MaxImages == 2      \* longest img_list
MaxLines == 2       \* most segments HoughLinesP returns
MaxKeypoints == 1   \* most keypoints the blob detector returns

----------------------------------------------------------------------------
(* Pixels and images *)

Grey(v) == <<v, v, v>>

\* pixel values around every cutoff of the source, and one saturated colour
Palette == {Grey(0), Grey(180), Grey(181), Grey(220), Grey(221),
            Grey(240), Grey(241), Grey(255), <<255, 255, 0>>}

\* an image whose first k pixels (row-major) are hi and whose others are lo
MakeImage(h, w, k, hi, lo) ==
    [h |-> h, w |-> w, pix |-> [p \in 1..(h * w) |-> IF p <= k THEN hi ELSE lo]]

\* the images of h * w pixels with k pixels of a colour, k among counts
ImagesOf(h, w, counts, colours) ==
    {MakeImage(h, w, k, hi, Grey(0)) : k \in counts, hi \in colours}

\* 20-pixel images with no, one or every pixel of each colour; 20-pixel
\* images with a fraction just below, at and just above 0.15 of their pixels
\* brighter than 240; 100-pixel images with a fraction 0.01 or 0.02 of
\* their pixels at or just above 220
Images ==
    ImagesOf(4, 5, {0, 1, 20}, Palette)
        \cup ImagesOf(4, 5, {2, 3, 4}, {Grey(241)})
        \cup ImagesOf(10, 10, {1, 2}, {Grey(220), Grey(221)})

----------------------------------------------------------------------------
(* OpenCV primitives used by the heuristics *)

\* cv2.cvtColor(img, cv2.COLOR_BGR2GRAY) on 8-bit pixels: fixed-point
\* luminance (0.114 B + 0.587 G + 0.299 R), rounded
cvtColor(image) ==
    [h |-> image.h, w |-> image.w,
     pix |-> [p \in DOMAIN image.pix |->
                (image.pix[p][1] * 1868 + image.pix[p][2] * 9617
                 + image.pix[p][3] * 4899 + 8192) \div 16384]]

thresholdGE(grey_img, thresh, maxval) ==
    [h |-> grey_img.h, w |-> grey_img.w,
     pix |-> [p \in DOMAIN grey_img.pix |->
                IF grey_img.pix[p] >= thresh THEN maxval ELSE 0]]

\* cv2.threshold(grey_img, thresh, maxval, cv2.THRESH_BINARY):
\* dst = maxval where src > thresh, 0 elsewhere
threshold(grey_img, thresh, maxval) ==
    [h |-> grey_img.h, w |-> grey_img.w,
     pix |-> [p \in DOMAIN grey_img.pix |->
                IF grey_img.pix[p] > thresh THEN maxval ELSE 0]]

\* cv2.countNonZero
countNonZero(bw_image) ==
    Cardinality({p \in DOMAIN bw_image.pix : bw_image.pix[p] # 0})

----------------------------------------------------------------------------
(* Floating-point values: a ratio is kept as the exact fraction <<n, d>>   *)
(* (d > 0); the decimal literals of the source are exact fractions too.    *)

FracLess(a, b) == a[1] * b[2] < b[1] * a[2]

PERCENTAGE_THRESHOLD == <<15, 100>>     \* 0.15
RELAX_THRESHOLD == <<1, 100>>           \* 0.01

\* len(bw_image) * len(bw_image[0]) is h * w; white / total as a fraction
_calc_white_pixel_ratio(bw_image) ==
    <<countNonZero(bw_image), bw_image.h * bw_image.w>>

----------------------------------------------------------------------------
(* Angles.  math.degrees(math.atan(rise/run)) is a float; the model keeps  *)
(* its order against whole degrees: an angle of exactly d degrees is the   *)
(* integer 2d, an angle strictly between d and d+1 degrees is 2d+1.        *)
(* Deg(d) is the whole-degree literal d in that encoding.  The tangent of  *)
(* a rational slope is a whole number of degrees only at 0 and +-45, so    *)
(* every other slope falls strictly between two entries of the table.      *)
(* _calculate_angle returns <<angle>>, or <<>> for Python's None.          *)

Deg(d) == 2 * d

Abs(n) == IF n < 0 THEN -n ELSE n

TanScale == 1000000

\* TanTable[d + 1] = floor(tan(d degrees) * TanScale), d = 0..89
TanTable == <<
    0, 17455, 34920, 52407, 69926, 87488, 105104, 122784, 140540, 158384,
    176326, 194380, 212556, 230868, 249328, 267949, 286745, 305730, 324919,
    344327, 363970, 383864, 404026, 424474, 445228, 466307, 487732, 509525,
    531709, 554309, 577350, 600860, 624869, 649407, 674508, 700207, 726542,
    753554, 781285, 809784, 839099, 869286, 900404, 932515, 965688, 1000000,
    1035530, 1072368, 1110612, 1150368, 1191753, 1234897, 1279941, 1327044,
    1376381, 1428148, 1482560, 1539864, 1600334, 1664279, 1732050, 1804047,
    1880726, 1962610, 2050303, 2144506, 2246036, 2355852, 2475086, 2605089,
    2747477, 2904210, 3077683, 3270852, 3487414, 3732050, 4010780, 4331475,
    4704630, 5144554, 5671281, 6313751, 7115369, 8144346, 9514364, 11430052,
    14300666, 19081136, 28636253, 57289961 >>

\* the largest d in lo..hi with tan(d degrees) <= a / b, by bisection;
\* tan(lo degrees) <= a / b
RECURSIVE FloorDegrees(_, _, _, _)
FloorDegrees(a, b, lo, hi) ==
    IF lo = hi THEN lo
    ELSE LET mid == (lo + hi + 1) \div 2
         IN  IF TanTable[mid + 1] * b <= a * TanScale
             THEN FloorDegrees(a, b, mid, hi)
             ELSE FloorDegrees(a, b, lo, mid - 1)

\* math.degrees(math.atan(rise/run)) for run # 0
atan_degrees(rise, run) ==
    LET a == Abs(rise)
        b == Abs(run)
        d == FloorDegrees(a, b, 0, 89)
        whole == (a = 0) \/ (a = b)
        code == IF whole THEN 2 * d ELSE 2 * d + 1
    IN  IF (rise < 0) = (run < 0) THEN code ELSE -code

_calculate_angle_swapped(numpy_line) ==
    LET rise == numpy_line[4] - numpy_line[2]
        run == numpy_line[3] - numpy_line[1]
    IN  IF run = 0 THEN <<>>
        ELSE IF rise = 0 THEN <<Deg(90)>> ELSE <<atan_degrees(run, rise)>>

\* x1, y1, x2, y2 = numpy_line[0]
_calculate_angle(numpy_line) ==
    LET rise == numpy_line[4] - numpy_line[2]
        run == numpy_line[3] - numpy_line[1]
    IN  IF run = 0 THEN <<>> ELSE <<atan_degrees(rise, run)>>

\* Python truth value of what _calculate_angle returns: None and 0.0 are false
Truthy(angle) == angle # <<>> /\ angle[1] # 0

----------------------------------------------------------------------------
(* The heuristics.  Each operator returns the record of the call: the      *)
(* locals the claims speak of, the returned value (value) and the caller's *)
(* image after the call (img).                                             *)

ON == 255

is_flare_lots_ge(image, show_final_img_analysed) ==
    LET grey_img == cvtColor(image)
        bw_image == threshold(grey_img, 240, ON)
        ratio == _calc_white_pixel_ratio(bw_image)
    IN  [fn |-> "is_flare_lots", cutoff |-> 240, bw_image |-> bw_image,
         value |-> ~FracLess(ratio, PERCENTAGE_THRESHOLD), img |-> image]

is_flare_lots(image, show_final_img_analysed) ==
    LET grey_img == cvtColor(image)
        bw_image == threshold(grey_img, 240, ON)
        ratio == _calc_white_pixel_ratio(bw_image)
    IN  [fn |-> "is_flare_lots", cutoff |-> 240, bw_image |-> bw_image,
         value |-> FracLess(PERCENTAGE_THRESHOLD, ratio), img |-> image]

\* keypoints: what detector.detect(inverted_img) returns, a list of keypoints
is_flare_elliptical(image, show_final_img_analysed, keypoints) ==
    LET grey_img == cvtColor(image)
        bw_image == threshold(grey_img, 220, ON)
    IN  [fn |-> "is_flare_elliptical", cutoff |-> 220, bw_image |-> bw_image,
         value |-> (keypoints # <<>>), img |-> image]

\* the body of the loop over lines: 1 when the segment is counted, else 0
CountsSymmetric(line, interval1, interval2) ==
    LET angle == _calculate_angle(line)
    IN  IF Truthy(angle)
        THEN IF angle[1] >= Deg(interval1) /\ angle[1] <= Deg(interval2) THEN 1
             ELSE IF angle[1] <= Deg(interval1 * (-1))
                     /\ angle[1] >= Deg(interval2 * (-1)) THEN 1
             ELSE 0
        ELSE 0

Counts(line, interval1, interval2) ==
    LET angle == _calculate_angle(line)
    IN  IF Truthy(angle)
        THEN IF angle[1] >= Deg(interval1) /\ angle[1] <= Deg(interval2) THEN 1
             ELSE IF angle[1] <= Deg(interval1 * (-1))
                     /\ angle[1] >= Deg(interval2 * (-2)) THEN 1
             ELSE 0
        ELSE 0

RECURSIVE CountLines(_, _, _)
CountLines(lines, interval1, interval2) ==
    IF lines = <<>> THEN 0
    ELSE CountLines(Tail(lines), interval1, interval2)
         + Counts(Head(lines), interval1, interval2)

RaysParamsSwapped(relaxed) ==
    IF relaxed THEN [cutoff |-> 220, interval1 |-> 15, interval2 |-> 75]
    ELSE [cutoff |-> 180, interval1 |-> 30, interval2 |-> 60]

\* cutoff, interval1, interval2 after the relaxation test
RaysParams(relaxed) ==
    IF relaxed THEN [cutoff |-> 180, interval1 |-> 15, interval2 |-> 75]
    ELSE [cutoff |-> 220, interval1 |-> 30, interval2 |-> 60]

\* hough: what cv2.HoughLinesP returns on bw_image, <<>> for None, else the
\* sequence of segments <<x1, y1, x2, y2>>.  The debug overlay is drawn on
\* draft_img = img.copy(), never on img.
is_flare_rays(image, show_final_img_analysed, hough) ==
    LET grey_img == cvtColor(image)
        bw_220 == threshold(grey_img, 220, ON)
        relaxed == FracLess(_calc_white_pixel_ratio(bw_220), RELAX_THRESHOLD)
        params == RaysParams(relaxed)
        bw_image == IF relaxed THEN threshold(grey_img, 180, ON) ELSE bw_220
        lines == hough
        count == CountLines(lines, params.interval1, params.interval2)
    IN  [fn |-> "is_flare_rays", cutoff |-> params.cutoff, bw_image |-> bw_image,
         interval1 |-> params.interval1, interval2 |-> params.interval2,
         lines |-> lines, count |-> count,
         value |-> (count # 0), img |-> image]

\* cv2.circle(img, (x, y), r, (0, 255, 0), 4) then
\* cv2.rectangle(img, (x - 5, y - 5), (x + 5, y + 5), (0, 128, 255), -1):
\* the ring of width 4 around radius r, then the filled square, clipped to
\* the image; pixel p is column (p - 1) % w of row (p - 1) \div w
DrawCircle(image, c) ==
    [h |-> image.h, w |-> image.w,
     pix |-> [p \in DOMAIN image.pix |->
        LET px == (p - 1) % image.w
            py == (p - 1) \div image.w
            d2 == (px - c[1]) * (px - c[1]) + (py - c[2]) * (py - c[2])
            lo == IF c[3] > 2 THEN c[3] - 2 ELSE 0
        IN  IF Abs(px - c[1]) <= 5 /\ Abs(py - c[2]) <= 5 THEN <<0, 128, 255>>
            ELSE IF d2 >= lo * lo /\ d2 <= (c[3] + 2) * (c[3] + 2)
                 THEN <<0, 255, 0>>
            ELSE image.pix[p]]]

RECURSIVE DrawCircles(_, _)
DrawCircles(image, circles) ==
    IF circles = <<>> THEN image
    ELSE DrawCircles(DrawCircle(image, Head(circles)), Tail(circles))

\* circles: what cv2.HoughCircles returns on the blurred, thresholded and
\* eroded image, <<>> for None, else the sequence of circles <<x, y, r>>
is_flare_arcs(image, show_final_img_analysed, circles) ==
    [fn |-> "is_flare_arcs", cutoff |-> 240,
     value |-> (circles # <<>>),
     img |-> IF show_final_img_analysed /\ circles # <<>>
             THEN DrawCircles(image, circles) ELSE image]

----------------------------------------------------------------------------
(* Results of the OpenCV detectors *)

\* <<run, rise>> of the segments: vertical, horizontal, +-45 degrees (one
\* with negative run), and slopes on each side of 15, 30, 60 and 75 degrees
Slopes == {<<0, 3>>, <<3, 0>>, <<3, 3>>, <<-3, 3>>,
           <<6, 1>>, <<6, -1>>, <<-6, -2>>, <<6, -2>>,
           <<2, 4>>, <<2, -4>>, <<1, 6>>, <<1, -6>>}

Segments == {<<6, 6, 6 + s[1], 6 + s[2]>> : s \in Slopes}

SeqsUpTo(S, n) == UNION {[1..m -> S] : m \in 0..n}

LineResults == SeqsUpTo(Segments, MaxLines)

KeypointResults == SeqsUpTo({"keypoint"}, MaxKeypoints)

CircleResults == {<<>>, << <<2, 1, 6>> >>}

----------------------------------------------------------------------------------------------------------------------------------------
(* A caller holding one image and calling one heuristic on it *)

InitCall ==
    /\ img \in Images
    /\ img0 = img
    /\ ret = [fn |-> "none"]
    /\ pc = "api"
    /\ img_list = <<>> /\ idx = 1 /\ branch = 1
    /\ stdout = <<>> /\ flares = 0 /\ good = 0 /\ calls = <<>>

Return(r) ==
    /\ pc = "api"
    /\ pc' = "returned"
    /\ img0' = img
    /\ ret' = [f \in DOMAIN r \ {"img"} |-> r[f]]
    /\ img' = r.img
    /\ UNCHANGED <<img_list, idx, branch, stdout, flares, good, calls>>

CallLots == \E debug \in BOOLEAN : Return(is_flare_lots(img, debug))

CallElliptical ==
    \E debug \in BOOLEAN, keypoints \in KeypointResults :
        Return(is_flare_elliptical(img, debug, keypoints))

CallRays ==
    \E debug \in BOOLEAN, hough \in LineResults :
        Return(is_flare_rays(img, debug, hough))

CallArcs ==
    \E debug \in BOOLEAN, circles \in CircleResults :
        Return(is_flare_arcs(img, debug, circles))

NextCall == CallLots \/ CallElliptical \/ CallRays \/ CallArcs

SpecCall == InitCall /\ [][NextCall]_vars

----------------------------------------------------------------------------
(* __main__: the loop over sys.argv[1:] *)

\* a file is [readable, data]; cv2.imread returns None for a file it cannot
\* read or decode, else the decoded image
imread(file) == IF file.readable THEN file.data ELSE None

Unreadable == [readable |-> FALSE, data |-> <<>>]

Files ==
    {Unreadable} \cup
    {[readable |-> TRUE, data |-> MakeImage(4, 5, k, Grey(255), Grey(0))] :
        k \in {3, 20}}

ChainWithArcs ==
    <<"is_flare_lots", "is_flare_elliptical", "is_flare_rays", "is_flare_arcs">>

ChainRaysFirst == <<"is_flare_rays", "is_flare_lots", "is_flare_elliptical">>

\* the if / elif chain of the loop body, in source order
Chain == <<"is_flare_lots", "is_flare_elliptical", "is_flare_rays">>

\* the detector results a heuristic can meet
Oracles(fn) ==
    CASE fn = "is_flare_lots" -> {<<>>}
      [] fn = "is_flare_elliptical" -> KeypointResults
      [] fn = "is_flare_rays" -> LineResults
      [] fn = "is_flare_arcs" -> CircleResults

\* fn(img) as __main__ calls it: show_final_img_analysed keeps its default
Heuristic(fn, image, oracle) ==
    CASE fn = "is_flare_lots" -> is_flare_lots(image, FALSE)
      [] fn = "is_flare_elliptical" -> is_flare_elliptical(image, FALSE, oracle)
      [] fn = "is_flare_rays" -> is_flare_rays(image, FALSE, oracle)
      [] fn = "is_flare_arcs" -> is_flare_arcs(image, FALSE, oracle)

Init ==
    /\ img_list \in SeqsUpTo(Files, MaxImages)
    /\ idx = 1
    /\ pc = "loop"
    /\ branch = 1
    /\ img = None
    /\ stdout = <<>>
    /\ flares = 0
    /\ good = 0
    /\ calls = <<>>
    /\ img0 = None
    /\ ret = [fn |-> "none"]

\* for img_name in img_list: img = cv2.imread(img_name)
Imread ==
    /\ pc = "loop"
    /\ idx <= Len(img_list)
    /\ img' = imread(img_list[idx])
    /\ branch' = 1
    /\ pc' = "chain"
    /\ UNCHANGED <<img_list, idx, stdout, flares, good, calls, img0, ret>>

\* the loop is exhausted: the script ends
Exit ==
    /\ pc = "loop"
    /\ idx > Len(img_list)
    /\ pc' = "done"
    /\ UNCHANGED <<img_list, idx, branch, img, stdout, flares, good, calls,
                   img0, ret>>

Log(fn, outcome) == Append(calls, [image |-> idx, fn |-> fn, outcome |-> outcome])

\* one condition of the if / elif chain.  On None, cv2.cvtColor raises
\* cv2.error, which nothing catches: the script ends with a traceback.
Evaluate ==
    /\ pc = "chain"
    /\ LET fn == Chain[branch] IN
        IF img = None
        THEN /\ pc' = "crashed"
             /\ calls' = Log(fn, "raised")
             /\ UNCHANGED <<img_list, idx, branch, img, stdout, flares, good,
                            img0, ret>>
        ELSE \E oracle \in Oracles(fn) :
             LET r == Heuristic(fn, img, oracle) IN
             /\ img' = r.img
             /\ calls' = Log(fn, IF r.value THEN "true" ELSE "false")
             /\ IF r.value
                THEN /\ stdout' = Append(stdout, "1")
                     /\ flares' = flares + 1
                     /\ idx' = idx + 1
                     /\ pc' = "loop"
                     /\ UNCHANGED <<branch, good>>
                ELSE IF branch < Len(Chain)
                THEN /\ branch' = branch + 1
                     /\ UNCHANGED <<idx, pc, stdout, flares, good>>
                ELSE /\ stdout' = Append(stdout, "0")
                     /\ good' = good + 1
                     /\ idx' = idx + 1
                     /\ pc' = "loop"
                     /\ UNCHANGED <<branch, flares>>
             /\ UNCHANGED <<img_list, img0, ret>>

Next == Imread \/ Exit \/ Evaluate

Spec == Init /\ [][Next]_vars

----------------------------------------------------------------------------
(* Properties of the command-line loop (Spec) *)

CallsOf(i) == SelectSeq(calls, LAMBDA c : c.image = i)

Terminated == pc \in {"done", "crashed"}

\* C1: for every image the heuristics run in the order Lots-of-Light,
\* Elliptical, Rays; a heuristic runs only if every one before it returned
\* false; and the image's line is 1 iff a heuristic that ran returned true
\* (for Rays: a nonzero count).
C1_StrictOrderShortCircuit ==
    \A i \in 1..Len(img_list) :
        LET cs == CallsOf(i)
            order == <<"is_flare_lots", "is_flare_elliptical", "is_flare_rays">>
        IN  /\ Len(cs) <= 3
            /\ \A k \in 1..Len(cs) :
                /\ cs[k].fn = order[k]
                /\ (k < Len(cs) => cs[k].outcome = "false")
            /\ (i <= Len(stdout) =>
                    (stdout[i] = "1" <=>
                        \E k \in 1..Len(cs) : cs[k].outcome = "true"))

\* an image on which Lots-of-Light returned false and Elliptical returned
\* true: its line is 1 and Rays never ran on it
C1_Witness ==
    /\ Len(stdout) >= 1
    /\ stdout[1] = "1"
    /\ Len(CallsOf(1)) = 2
    /\ CallsOf(1)[1] = [image |-> 1, fn |-> "is_flare_lots", outcome |-> "false"]
    /\ CallsOf(1)[2].fn = "is_flare_elliptical"

\* C2: the arc detector is never invoked by the loop.
C2_ArcsNeverInvoked ==
    \A k \in 1..Len(calls) : calls[k].fn # "is_flare_arcs"

\* an image on which all three heuristics returned false has its line 0
\* printed without any further heuristic having run
C2_Witness ==
    /\ Len(stdout) >= 1
    /\ stdout[1] = "0"
    /\ Len(CallsOf(1)) = 3
    /\ CallsOf(1)[3] = [image |-> 1, fn |-> "is_flare_rays", outcome |-> "false"]

\* C3: when the command ends, it has printed exactly one line per image of
\* the list, in input order, 1 for an image classified as flare and 0
\* otherwise.
C3_OneLinePerImage ==
    Terminated =>
        /\ Len(stdout) = Len(img_list)
        /\ \A i \in 1..Len(img_list) :
            stdout[i] = (IF \E k \in 1..Len(CallsOf(i)) :
                                CallsOf(i)[k].outcome = "true"
                         THEN "1" ELSE "0")

\* C4: a heuristic that fails on an image does not abort the batch: the
\* loop goes on with the remaining heuristics and images.
C4_FailureDoesNotAbort ==
    \A k \in 1..Len(calls) :
        calls[k].outcome = "raised" => pc \in {"loop", "chain", "done"}

----------------------------------------------------------------------------
(* Properties of a single call (SpecCall) *)

Returned(fn) == pc = "returned" /\ ret.fn = fn

\* the grayscale values of the pixels of the image that was passed in
GreyOfCaller == cvtColor(img0).pix

Thresholding == {"is_flare_lots", "is_flare_elliptical", "is_flare_rays"}

\* the cutoffs each heuristic may threshold at
CutoffsOf(fn) ==
    CASE fn = "is_flare_lots" -> {240}
      [] fn = "is_flare_elliptical" -> {220}
      [] fn = "is_flare_rays" -> {220, 180}

\* C5 as amended: binary conversion at a cutoff c turns every pixel whose
\* grayscale value is strictly greater than c into ON and every other pixel,
\* one equal to the cutoff included, into OFF.
C5_ThresholdStrictlyGreater ==
    (pc = "returned" /\ ret.fn \in Thresholding) =>
        /\ ret.cutoff \in CutoffsOf(ret.fn)
        /\ LET grey == GreyOfCaller IN
            \A p \in DOMAIN img0.pix :
                ret.bw_image.pix[p] = (IF grey[p] > ret.cutoff THEN ON ELSE 0)

\* C5 as stated: every pixel whose grayscale value is >= the cutoff is ON,
\* every other pixel is OFF.
C5_ThresholdAtLeast ==
    (pc = "returned" /\ ret.fn \in Thresholding) =>
        /\ ret.cutoff \in CutoffsOf(ret.fn)
        /\ LET grey == GreyOfCaller IN
            \A p \in DOMAIN img0.pix :
                ret.bw_image.pix[p] = (IF grey[p] >= ret.cutoff THEN ON ELSE 0)

\* a pixel whose grayscale value equals the cutoff, and is OFF
C5_Witness ==
    /\ pc = "returned"
    /\ ret.fn \in Thresholding
    /\ LET grey == GreyOfCaller IN
        \E p \in DOMAIN img0.pix :
            grey[p] = ret.cutoff /\ ret.bw_image.pix[p] = 0

\* number of pixels of the image passed in that are brighter than cutoff
Brighter(cutoff) ==
    LET grey == GreyOfCaller
    IN  Cardinality({p \in DOMAIN img0.pix : grey[p] > cutoff})

NPixels == img0.h * img0.w

\* C6: is_flare_lots returns true iff the fraction of ON pixels at cutoff 240
\* is strictly greater than 0.15; an all-black image is not flagged and an
\* all-white image is.
C6_LotsStrictlyAboveThreshold ==
    Returned("is_flare_lots") =>
        /\ ret.value <=> (100 * Brighter(240) > 15 * NPixels)
        /\ (\A p \in DOMAIN img0.pix : img0.pix[p] = Grey(0)) =>
                (countNonZero(ret.bw_image) = 0 /\ ~ret.value)
        /\ (\A p \in DOMAIN img0.pix : img0.pix[p] = Grey(255)) =>
                (countNonZero(ret.bw_image) = NPixels /\ ret.value)

\* an image whose ON fraction is exactly 0.15: not flagged
C6_Witness ==
    /\ Returned("is_flare_lots")
    /\ 100 * Brighter(240) = 15 * NPixels
    /\ ~ret.value

\* rise and run of a segment
Rise(line) == line[4] - line[2]

Run(line) == line[3] - line[1]

\* the angle of a segment with nonzero run lies in [lo, hi] degrees
AngleWithin(line, lo, hi) ==
    LET angle == _calculate_angle(line)
    IN  angle[1] >= Deg(lo) /\ angle[1] <= Deg(hi)

C8_RelaxedIffBelowOnePercent ==
    Returned("is_flare_rays") =>
        LET relaxed == 100 * Brighter(220) < NPixels
        IN  /\ <<ret.cutoff, ret.interval1, ret.interval2>> =
                    (IF relaxed THEN <<180, 15, 75>> ELSE <<220, 30, 60>>)
            /\ ret.bw_image = threshold(cvtColor(img0), ret.cutoff, ON)

\* an image whose on-ratio at cutoff 220 is exactly 0.01: not relaxed
C8_Witness ==
    /\ Returned("is_flare_rays")
    /\ 100 * Brighter(220) = NPixels
    /\ ret.cutoff = 220
    /\ ret.interval1 = 30

\* C9: no heuristic modifies the caller's image, with the debug flag off or
\* on: after the call the image is pixel for pixel what was passed in.
C9_CallerImageUnchanged ==
    pc = "returned" => img = img0

\* |rise| / |run| >= tan(d degrees), for d among the interval bounds of
\* is_flare_rays; a = |rise|, b = |run| > 0.  tan 30 = 1 / sqrt 3,
\* tan 60 = sqrt 3, tan 15 = 2 - sqrt 3, tan 75 = 2 + sqrt 3: all irrational,
\* so a rational slope never equals one of them.
SlopeAtLeast(a, b, d) ==
    CASE d = 30 -> 3 * a * a >= b * b
      [] d = 60 -> a * a >= 3 * b * b
      [] d = 15 -> a >= 2 * b \/ (2 * b - a) * (2 * b - a) <= 3 * b * b
      [] d = 75 -> a >= 2 * b /\ (a - 2 * b) * (a - 2 * b) >= 3 * b * b

\* C10: the angle of a segment with nonzero run lies strictly between -90
\* and 90 degrees, so a segment of negative angle is counted iff its angle
\* is <= -interval1, however steep it is, while a segment of positive angle
\* is counted iff its angle lies in [interval1, interval2].
C10_NegativeBandReachesVertical ==
    Returned("is_flare_rays") =>
        LET Steepness(l, d) == SlopeAtLeast(Abs(Rise(l)), Abs(Run(l)), d)
            Negative(l) == (Rise(l) < 0) # (Run(l) < 0) /\ Rise(l) # 0
            Positive(l) == (Rise(l) < 0) = (Run(l) < 0) /\ Rise(l) # 0
            counted == {k \in DOMAIN ret.lines :
                LET l == ret.lines[k] IN
                /\ Run(l) # 0
                /\ \/ Negative(l) /\ Steepness(l, ret.interval1)
                   \/ /\ Positive(l)
                      /\ Steepness(l, ret.interval1)
                      /\ ~Steepness(l, ret.interval2)}
        IN  /\ ret.count = Cardinality(counted)
            /\ \A k \in DOMAIN ret.lines :
                Run(ret.lines[k]) # 0 =>
                    /\ _calculate_angle(ret.lines[k])[1] > Deg(-90)
                    /\ _calculate_angle(ret.lines[k])[1] < Deg(90)

\* a segment at about +80.5 degrees and its mirror at about -80.5 degrees:
\* only the mirror is counted
C10_Witness ==
    /\ Returned("is_flare_rays")
    /\ ret.lines = << <<6, 6, 7, 12>>, <<6, 6, 7, 0>> >>
    /\ ret.count = 1
    /\ Counts(<<6, 6, 7, 0>>, ret.interval1, ret.interval2) = 1

====
